---- MODULE Spec2Model ----
(***************************************************************************)
(* Model of the VAPI / Relevance middleware (src/dawn_middleware.py).      *)
(*                                                                         *)
(* State: the SQLite table `conversation` (a sequence of rows in rowid     *)
(* order), the position and local variables of every chat-completions      *)
(* handler, the server message in flight and the reply it got.             *)
(*                                                                         *)
(* Strings whose characters matter (the answer text that is split into     *)
(* words) are sequences of one-character strings; identifiers are TLA+     *)
(* strings.  Python's None is the string NONE, or, for a value that is a   *)
(* row / dict, a record of the same shape marked absent.                   *)
(*                                                                         *)
(* The surrogate key `id` of a row is never read by the program and is     *)
(* left out; rows keep their insertion order, which is what fetchone()     *)
(* and LIMIT 1 observe.  SQLite itself is taken to be reliable: the        *)
(* `except sqlite3.Error` branches are not taken.                          *)
(*                                                                         *)
(* The upstream answers with well-shaped JSON or fails: a trigger body is  *)
(* an object whose job_info, when present, is an object; a polled status   *)
(* has a type, and a chain-success update has output.output.  A body that  *)
(* is not JSON raises requests' JSONDecodeError, a RequestException.       *)
(*                                                                         *)
(* poll_for_updates and generate() of src/translator.py are the same code  *)
(* as those of src/dawn_middleware.py, which the line numbers refer to.    *)
(*                                                                         *)
(* Specifications: Spec (one request at a time), SpecCall (one chat        *)
(* handler, server messages at any moment, fair scheduling), SpecConc      *)
(* (overlapping chat handlers), SpecPoll and SpecStream (the poller and    *)
(* the streamer alone), and SpecTurns, SpecPolled and SpecStale, which     *)
(* run the same actions and record a history variable beside them.         *)
(***************************************************************************)
EXTENDS Integers, Sequences, FiniteSets, TLC

\* ------------------------------------------------------------------ bounds
NumProcs == 2      \* concurrent chat-completions handlers (SpecConc)
MaxMsgs == 2       \* messages in one chat request
MaxUpdates == 3    \* updates in one polled status (SpecPoll)
MaxLen == 4        \* characters in an answer text (SpecStream)
MaxObserved == 1   \* updates in one polled status (SpecPolled)

\* --------------------------------------------------------- program constants
MAX_POLL_ATTEMPTS == 120

SENTINEL == "1234"

NONE == "None"

\* ------------------------------------------------------------------- values
Procs == 1..NumProcs

Agents == {"agent-42", "agent-7"}

ConvIds == {SENTINEL, "conv-9", "conv-10"}

Whitespace == {" ", "\n"}

Chars == {"a", "b"} \cup Whitespace

HiFriend == <<"H", "i", " ", "f", "r", "i", "e", "n", "d">>

\* answer texts the upstream returns in the handler specifications
AnswerTexts == {<<>>, HiFriend}

\* every text of at most n characters
RECURSIVE TextsUpTo(_)
TextsUpTo(n) ==
    IF n = 0 THEN {<<>>}
    ELSE LET shorter == TextsUpTo(n - 1)
         IN  shorter \cup {Append(t, c) : t \in {u \in shorter : Len(u) = n - 1}, c \in Chars}

\* ------------------------------------------------- the conversation table
Row(agent, conv) == [relevance_agent_id |-> agent, relevance_conversation_id |-> conv]

\* what fetchone() returns on an empty result
NoRow == Row(NONE, NONE)

\* cursor.fetchone() after SELECT ... FROM conversation [LIMIT 1]
FetchOne(s) == IF s = <<>> THEN NoRow ELSE s[1]

\* UPDATE conversation SET relevance_agent_id = ?      (no WHERE: every row)
UpdateAgentId(s, agent) ==
    [i \in 1..Len(s) |-> Row(agent, s[i].relevance_conversation_id)]

\* UPDATE conversation SET relevance_conversation_id = ?   (every row)
UpdateConversationId(s, conv) ==
    [i \in 1..Len(s) |-> Row(s[i].relevance_agent_id, conv)]

\* INSERT INTO conversation (relevance_agent_id, relevance_conversation_id)
InsertRow(s, agent, conv) == Append(s, Row(agent, conv))

\* DELETE ... WHERE id = (the first row's)
DeleteFirstRecord(s) == IF s = <<>> THEN s ELSE Tail(s)

\* DELETE FROM conversation
DeleteAllRecords(s) == <<>>

\* a store step that inserts whenever no conversation is established yet
StoreAfterSelectInsertOnSentinel(s, existing, agent) ==
    IF existing # NoRow /\ existing.relevance_conversation_id # SENTINEL
    THEN UpdateAgentId(s, agent)
    ELSE InsertRow(s, agent, SENTINEL)

\* the write that follows the handler's SELECT (lines 222-236)
StoreAfterSelect(s, existing, agent) ==
    IF existing # NoRow
    THEN IF existing.relevance_conversation_id # SENTINEL
         THEN UpdateAgentId(s, agent)
         ELSE s
    ELSE InsertRow(s, agent, SENTINEL)

\* ------------------------------------------------------ the chat request
Roles == {"user", "assistant"}

Contents == {"", "Hello there"}

Message(role, content) == [role |-> role, content |-> content]

Messages == {Message(r, c) : r \in Roles, c \in Contents}

RECURSIVE MessageLists(_)
MessageLists(n) ==
    IF n = 0 THEN {<<>>}
    ELSE LET shorter == MessageLists(n - 1)
         IN  shorter \cup {Append(l, m) : l \in {u \in shorter : Len(u) = n - 1}, m \in Messages}

\* the last message whatever its role
LastAnyFrom(msgs, i) == IF i = 0 THEN NONE ELSE msgs[i].content

\* next((m['content'] for m in reversed(messages) if m['role'] == 'user'), None)
RECURSIVE LastUserFrom(_, _)
LastUserFrom(msgs, i) ==
    IF i = 0 THEN NONE
    ELSE IF msgs[i].role = "user" THEN msgs[i].content
    ELSE LastUserFrom(msgs, i - 1)

LastUserContent(msgs) == LastUserFrom(msgs, Len(msgs))

\* Python truthiness of user_content: None and '' are falsy
UserContentOk(content) == content # NONE /\ content # ""

\* -------------------------------------------------- the trigger exchange
NoPayload == [agent_id |-> NONE, content |-> NONE, keys |-> {}, conversation_id |-> NONE]

\* a payload builder that tests the id for truth instead of against the sentinel
TriggerPayloadTruthy(agent, content, conv) ==
    IF conv # NONE /\ conv # ""
    THEN [agent_id |-> agent, content |-> content,
          keys |-> {"message", "agent_id", "conversation_id"}, conversation_id |-> conv]
    ELSE [agent_id |-> agent, content |-> content,
          keys |-> {"message", "agent_id"}, conversation_id |-> NONE]

\* the JSON body of POST /agents/trigger (lines 69-87)
TriggerPayload(agent, content, conv) ==
    IF conv # SENTINEL
    THEN [agent_id |-> agent, content |-> content,
          keys |-> {"message", "agent_id", "conversation_id"}, conversation_id |-> conv]
    ELSE [agent_id |-> agent, content |-> content,
          keys |-> {"message", "agent_id"}, conversation_id |-> NONE]

StudioIds == {NONE, "", "s1"}

JobIds == {NONE, "", "j1"}

\* what trigger_agent returns on a RequestException
NoJob == [present |-> FALSE, keys |-> {}, conversation_id |-> NONE,
          studio_id |-> NONE, job_id |-> NONE]

\* the JSON objects the upstream may answer a trigger with: conversation_id
\* and job_info each present or not, studio_id and job_id missing, empty or set
JobBodies ==
    {[present |-> TRUE, keys |-> ks, conversation_id |-> c, studio_id |-> s, job_id |-> j] :
        ks \in SUBSET {"conversation_id", "job_info"},
        c \in ConvIds \cup {NONE}, s \in StudioIds, j \in JobIds}

Jobs ==
    {b \in JobBodies :
        /\ ("conversation_id" \in b.keys) <=> (b.conversation_id # NONE)
        /\ ("job_info" \notin b.keys) => (b.studio_id = NONE /\ b.job_id = NONE)}

\* outcomes of requests.post + raise_for_status + response.json()
TriggerOutcomes ==
    {[kind |-> k, body |-> NoJob] : k \in {"transport", "http-error", "malformed-json"}}
    \cup {[kind |-> "ok", body |-> b] : b \in Jobs}

\* lines 93-103: the body on success, None on any RequestException
TriggerResult(outcome) == IF outcome.kind = "ok" THEN outcome.body ELSE NoJob

\* the checks of the job without the one on studio_id and job_id
JobCheckKeysOnly(j) ==
    IF ~j.present \/ j.keys = {}
    THEN "Failed to trigger agent"
    ELSE IF "conversation_id" \notin j.keys \/ "job_info" \notin j.keys
    THEN "Invalid response from trigger_agent"
    ELSE "ok"

\* lines 248-258 of the handler: the error it answers with, or "ok"
JobCheck(j) ==
    IF ~j.present \/ j.keys = {}
    THEN "Failed to trigger agent"
    ELSE IF "conversation_id" \notin j.keys \/ "job_info" \notin j.keys
    THEN "Invalid response from trigger_agent"
    ELSE IF j.studio_id \in {NONE, ""} \/ j.job_id \in {NONE, ""}
    THEN "Missing studio_id or job_id in response"
    ELSE "ok"

\* ----------------------------------------------------- the poll exchange
\* update['output']['output']: a dict, here by its keys and its answer text
Payload(keys, answer) == [present |-> TRUE, keys |-> keys, answer |-> answer]

\* what poll_for_updates returns when it gives up
NoAnswer == [present |-> FALSE, keys |-> {}, answer |-> <<>>]

EmptyPayload == Payload({}, <<>>)

Payloads ==
    {EmptyPayload, Payload({"status"}, <<>>)}
    \cup {Payload({"answer"}, t) : t \in AnswerTexts}

Update(type, output) == [type |-> type, output |-> output]

Updates ==
    {Update("tool-run", EmptyPayload)} \cup {Update("chain-success", o) : o \in Payloads}

RECURSIVE UpdateLists(_)
UpdateLists(n) ==
    IF n = 0 THEN {<<>>}
    ELSE LET shorter == UpdateLists(n - 1)
         IN  shorter \cup {Append(l, u) : l \in {v \in shorter : Len(v) = n - 1}, u \in Updates}

StatusTypes == {"pending", "complete", "failed"}

Status(type, updates) == [type |-> type, updates |-> updates]

NoStatus == Status(NONE, <<>>)

\* every status of at most MaxUpdates updates (SpecPoll)
Statuses == {Status(t, us) : t \in StatusTypes, us \in UpdateLists(MaxUpdates)}

\* the statuses the upstream answers with in the handler specifications
HandlerStatuses ==
    {Status("pending", <<>>), Status("complete", <<>>),
     Status("complete", <<Update("tool-run", EmptyPayload)>>)}
    \cup {Status("complete", <<Update("tool-run", EmptyPayload), Update("chain-success", o)>>) :
            o \in Payloads}

\* outcomes of requests.get + raise_for_status + response.json()
PollOutcomes(statuses) ==
    {[kind |-> k, status |-> NoStatus] : k \in {"transport", "http-error", "malformed-json"}}
    \cup {[kind |-> "ok", status |-> st] : st \in statuses}

\* no status request made yet
NoOutcome == [kind |-> NONE, status |-> NoStatus]

\* a scan that keeps going and returns at the last chain-success update
RECURSIVE ScanUpdatesLast(_, _)
ScanUpdatesLast(updates, i) ==
    IF i > Len(updates) THEN NoAnswer
    ELSE LET rest == ScanUpdatesLast(updates, i + 1)
         IN  IF rest.present THEN rest
             ELSE IF updates[i].type = "chain-success" THEN updates[i].output
             ELSE NoAnswer

\* lines 128-130: the scan of status['updates'], from index i on; the output of
\* the update it returns at, or NoAnswer when the scan falls through
RECURSIVE ScanUpdates(_, _)
ScanUpdates(updates, i) ==
    IF i > Len(updates) THEN NoAnswer
    ELSE IF updates[i].type = "chain-success" THEN updates[i].output
    ELSE ScanUpdates(updates, i + 1)

ScanReturns(updates) == \E i \in 1..Len(updates) : updates[i].type = "chain-success"

\* an iteration that gives up on a complete status without a chain-success update
PollIterationFailFast(outcome) ==
    IF outcome.kind # "ok"
    THEN [step |-> "return", value |-> NoAnswer, log |-> "An error occurred while polling"]
    ELSE IF outcome.status.type = "complete"
    THEN [step |-> "return", value |-> ScanUpdates(outcome.status.updates, 1), log |-> NONE]
    ELSE [step |-> "sleep", value |-> NoAnswer, log |-> NONE]

\* an iteration that sleeps and retries after a failed status request
PollIterationRetryOnError(outcome) ==
    IF outcome.kind # "ok"
    THEN [step |-> "sleep", value |-> NoAnswer, log |-> "An error occurred while polling"]
    ELSE IF outcome.status.type = "complete" /\ ScanReturns(outcome.status.updates)
    THEN [step |-> "return", value |-> ScanUpdates(outcome.status.updates, 1), log |-> NONE]
    ELSE [step |-> "sleep", value |-> NoAnswer, log |-> NONE]

\* one iteration of the loop (lines 122-135): "return" with a value (None on a
\* RequestException) or "sleep" and go round again
PollIteration(outcome) ==
    IF outcome.kind # "ok"
    THEN [step |-> "return", value |-> NoAnswer, log |-> "An error occurred while polling"]
    ELSE IF outcome.status.type = "complete" /\ ScanReturns(outcome.status.updates)
    THEN [step |-> "return", value |-> ScanUpdates(outcome.status.updates, 1), log |-> NONE]
    ELSE [step |-> "sleep", value |-> NoAnswer, log |-> NONE]

\* Python truthiness of agent_response: None and {} are falsy
AgentResponseOk(r) == r.present /\ r.keys # {}

\* agent_response.get('answer', '')
AnswerOf(r) == IF "answer" \in r.keys THEN r.answer ELSE <<>>

\* ------------------------------------------------------------ the streamer
\* str.split(): runs of whitespace separate the words, no empty word
RECURSIVE SplitFrom(_, _, _, _)
SplitFrom(s, i, word, acc) ==
    IF i > Len(s)
    THEN IF word = <<>> THEN acc ELSE Append(acc, word)
    ELSE IF s[i] \in Whitespace
    THEN SplitFrom(s, i + 1, <<>>, IF word = <<>> THEN acc ELSE Append(acc, word))
    ELSE SplitFrom(s, i + 1, Append(word, s[i]), acc)

\* str.split(' '): every single space separates, empty words included
RECURSIVE SplitOnSpaceFrom(_, _, _, _)
SplitOnSpaceFrom(s, i, word, acc) ==
    IF i > Len(s) THEN Append(acc, word)
    ELSE IF s[i] = " " THEN SplitOnSpaceFrom(s, i + 1, <<>>, Append(acc, word))
    ELSE SplitOnSpaceFrom(s, i + 1, Append(word, s[i]), acc)

SplitOnSpace(s) == SplitOnSpaceFrom(s, 1, <<>>, <<>>)

Split(s) == SplitFrom(s, 1, <<>>, <<>>)

\* one server-sent event: data: {"choices": [{"delta": {content, role}}]}
DeltaEvent(word) == [data |-> "delta", content |-> word \o <<" ">>, role |-> "assistant"]

\* data: [DONE]
DoneEvent == [data |-> "[DONE]", content |-> <<>>, role |-> NONE]

\* ------------------------------------------------------------- responses
NoResponse == [status |-> 0, content_type |-> NONE, error |-> NONE]

JsonError(status, error) == [status |-> status, content_type |-> "application/json", error |-> error]

EventStream == [status |-> 200, content_type |-> "text/event-stream", error |-> NONE]

\* an exception no handler catches: Flask answers 500 with its HTML error page
Unhandled(error) == [status |-> 500, content_type |-> "text/html", error |-> error]

\* ------------------------------------------------------ server messages
ServerMessage(type, status) == [type |-> type, status |-> status]

NoServerMessage == ServerMessage(NONE, NONE)

ServerMessages ==
    {ServerMessage("assistant-request", NONE), ServerMessage("status-update", "ended"),
     ServerMessage("status-update", "in-progress"), ServerMessage("end-of-call-report", NONE)}

\* ------------------------------------------------------------------ state
VARIABLES
    store,            \* the rows of table conversation, in rowid order
    pc,               \* where each chat handler is
    model,            \* relevance_agent_id = request_data.get('model')
    messages,         \* request_data.get('messages', [])
    existing_record,  \* the handler's fetchone() (line 220)
    user_content,     \* line 242
    payload,          \* the trigger payload just sent (NoPayload: none)
    job,              \* what trigger_agent returned
    trigger_calls,    \* POSTs to /agents/trigger made for this request
    attempts,         \* status requests made by the running poll_for_updates
    poll_log,         \* what poll_for_updates printed when it gave up
    agent_response,   \* what poll_for_updates returned
    last_status,      \* the polled status poll_for_updates returned from
    latest_response,  \* line 265
    words,            \* generate(): latest_response.split()
    events,           \* the server-sent events emitted so far
    response,         \* the HTTP response of the handler
    server_msg,       \* the /manage-vapi-server-messages message being handled
    server_reply,     \* the reply to the last server message
    deleted,          \* rows removed by the last server message
    established,      \* the conversation id of the last completed chat turn
                      \* since the last call-ended message (history)
    last_turn,        \* the chat turn that completed last, nothing but the steps
                      \* of the next chat request having happened since (history)
    polled,           \* the outcome of each handler's latest status request
                      \* (history)
    stale             \* whether a call-ended message was handled after the
                      \* handler's request read the table (history)

locals == <<pc, model, messages, existing_record, user_content, payload, job,
            trigger_calls, attempts, poll_log, agent_response, last_status,
            latest_response, words, events, response>>

server == <<server_msg, server_reply, deleted>>

\* The history variables last_turn, polled and stale are written by no action
\* of the program: a specification that reads one conjoins its update to the
\* steps it observes, and the others leave them as they are.
observed == <<last_turn, polled, stale>>

vars == <<store, locals, server, established, observed>>

Idle(p) == pc[p] \in {"idle", "done"}

\* a completed chat turn: the model it named, the conversation id its trigger
\* returned and the record it left
Turn(m, conv, record) == [model |-> m, conversation_id |-> conv, record |-> record]

NoTurn == Turn(NONE, NONE, NoRow)

InitObserved ==
    /\ last_turn = NoTurn
    /\ polled = [p \in Procs |-> NoOutcome]
    /\ stale = [p \in Procs |-> FALSE]

InitLocals ==
    /\ pc = [p \in Procs |-> "idle"]
    /\ model = [p \in Procs |-> NONE]
    /\ messages = [p \in Procs |-> <<>>]
    /\ existing_record = [p \in Procs |-> NoRow]
    /\ user_content = [p \in Procs |-> NONE]
    /\ payload = [p \in Procs |-> NoPayload]
    /\ job = [p \in Procs |-> NoJob]
    /\ trigger_calls = [p \in Procs |-> 0]
    /\ attempts = [p \in Procs |-> 0]
    /\ poll_log = [p \in Procs |-> NONE]
    /\ agent_response = [p \in Procs |-> NoAnswer]
    /\ last_status = [p \in Procs |-> NoStatus]
    /\ latest_response = [p \in Procs |-> <<>>]
    /\ words = [p \in Procs |-> <<>>]
    /\ events = [p \in Procs |-> <<>>]
    /\ response = [p \in Procs |-> NoResponse]

InitServer ==
    /\ server_msg = NoServerMessage
    /\ server_reply = NONE
    /\ deleted = 0

\* setup_database() on a fresh conversations.db: the table exists and is empty
Init ==
    /\ store = <<>>
    /\ InitLocals
    /\ InitServer
    /\ established = NONE
    /\ InitObserved

\* The handler returns `resp` from one of its error exits: its local variables
\* are gone; the response, the count of trigger calls made and, on the 400
\* exit, the messages of the request it answers remain.
ReturnError(p, resp) ==
    /\ pc' = [pc EXCEPT ![p] = "done"]
    /\ response' = [response EXCEPT ![p] = resp]
    /\ model' = [model EXCEPT ![p] = NONE]
    /\ existing_record' = [existing_record EXCEPT ![p] = NoRow]
    /\ user_content' = [user_content EXCEPT ![p] = NONE]
    /\ payload' = [payload EXCEPT ![p] = NoPayload]
    /\ job' = [job EXCEPT ![p] = NoJob]
    /\ attempts' = [attempts EXCEPT ![p] = 0]
    /\ poll_log' = [poll_log EXCEPT ![p] = NONE]
    /\ agent_response' = [agent_response EXCEPT ![p] = NoAnswer]
    /\ last_status' = [last_status EXCEPT ![p] = NoStatus]
    /\ UNCHANGED <<messages, trigger_calls, latest_response, words, events>>

\* ------------------------------------------------- /chat/completions
\* lines 210-212: a chat request arrives at handler p
ReceiveChat(p, m, msgs) ==
    /\ Idle(p)
    /\ pc' = [pc EXCEPT ![p] = "store_select"]
    /\ model' = [model EXCEPT ![p] = m]
    /\ messages' = [messages EXCEPT ![p] = msgs]
    /\ trigger_calls' = [trigger_calls EXCEPT ![p] = 0]
    /\ latest_response' = [latest_response EXCEPT ![p] = <<>>]
    /\ words' = [words EXCEPT ![p] = <<>>]
    /\ events' = [events EXCEPT ![p] = <<>>]
    /\ response' = [response EXCEPT ![p] = NoResponse]
    /\ UNCHANGED <<existing_record, user_content, payload, job, attempts, poll_log,
                   agent_response, last_status>>
    /\ UNCHANGED <<store, server, established>>

\* lines 219-220: SELECT ... LIMIT 1; fetchone()
StoreSelect(p) ==
    /\ pc[p] = "store_select"
    /\ existing_record' = [existing_record EXCEPT ![p] = FetchOne(store)]
    /\ pc' = [pc EXCEPT ![p] = "store_write"]
    /\ UNCHANGED <<store, model, messages, user_content, payload, job, trigger_calls,
                   attempts, poll_log, agent_response, last_status, latest_response,
                   words, events, response, server, established>>

\* lines 222-236: UPDATE or INSERT by what the SELECT saw, and commit.
\* existing_record is not read again after line 224.
StoreWrite(p) ==
    /\ pc[p] = "store_write"
    /\ store' = StoreAfterSelect(store, existing_record[p], model[p])
    /\ existing_record' = [existing_record EXCEPT ![p] = NoRow]
    /\ pc' = [pc EXCEPT ![p] = "validate"]
    /\ UNCHANGED <<model, messages, user_content, payload, job,
                   trigger_calls, attempts, poll_log, agent_response, last_status,
                   latest_response, words, events, response, server, established>>

\* lines 242-245: the last user message, or 400.  request_data is not read
\* again after line 242.
Validate(p) ==
    /\ pc[p] = "validate"
    /\ LET content == LastUserContent(messages[p])
       IN  IF UserContentOk(content)
           THEN /\ user_content' = [user_content EXCEPT ![p] = content]
                /\ messages' = [messages EXCEPT ![p] = <<>>]
                /\ pc' = [pc EXCEPT ![p] = "trigger"]
                /\ UNCHANGED <<model, existing_record, payload, job, trigger_calls,
                               attempts, poll_log, agent_response, last_status,
                               latest_response, words, events, response>>
           ELSE ReturnError(p, JsonError(400, "No user message found"))
    /\ UNCHANGED <<store, server, established>>

\* trigger_agent (lines 57-103): read the record, build the payload, POST once.
\* With no record, relevance_conversation_id is unbound at line 86 and the
\* UnboundLocalError leaves the handler before any request is made.
TriggerAgent(p, outcome) ==
    /\ pc[p] = "trigger"
    /\ LET conversation == FetchOne(store)
       IN  IF conversation = NoRow
           THEN ReturnError(p, Unhandled("UnboundLocalError"))
           ELSE /\ payload' = [payload EXCEPT ![p] =
                        TriggerPayload(model[p], user_content[p],
                                       conversation.relevance_conversation_id)]
                /\ job' = [job EXCEPT ![p] = TriggerResult(outcome)]
                /\ trigger_calls' = [trigger_calls EXCEPT ![p] = @ + 1]
                /\ pc' = [pc EXCEPT ![p] = "check_job"]
                /\ UNCHANGED <<model, messages, existing_record, user_content, attempts,
                               poll_log, agent_response, last_status, latest_response,
                               words, events, response>>
    /\ UNCHANGED <<store, server, established>>

\* lines 248-258: 500 unless the job names a conversation, a studio and a job
CheckJob(p) ==
    /\ pc[p] = "check_job"
    /\ IF JobCheck(job[p]) = "ok"
       THEN /\ pc' = [pc EXCEPT ![p] = "poll"]
            /\ payload' = [payload EXCEPT ![p] = NoPayload]
            /\ UNCHANGED <<model, messages, existing_record, user_content, job,
                           trigger_calls, attempts, poll_log, agent_response,
                           last_status, latest_response, words, events, response>>
       ELSE ReturnError(p, JsonError(500, JobCheck(job[p])))
    /\ UNCHANGED <<store, server, established>>

\* range(1, MAX_POLL_ATTEMPTS): one iteration short
PollIterationsFromOne == 0..(MAX_POLL_ATTEMPTS - 2)

\* range(MAX_POLL_ATTEMPTS): the values of the loop counter (line 121)
PollIterations == 0..(MAX_POLL_ATTEMPTS - 1)

\* one iteration of poll_for_updates (lines 121-135): one status request
PollStep(p, outcome) ==
    /\ pc[p] = "poll"
    /\ attempts[p] \in PollIterations
    /\ attempts' = [attempts EXCEPT ![p] = @ + 1]
    /\ LET it == PollIteration(outcome)
       IN  IF it.step = "return"
           THEN /\ agent_response' = [agent_response EXCEPT ![p] = it.value]
                /\ poll_log' = [poll_log EXCEPT ![p] = it.log]
                /\ last_status' = [last_status EXCEPT ![p] = outcome.status]
                /\ pc' = [pc EXCEPT ![p] = "check_response"]
           ELSE UNCHANGED <<agent_response, poll_log, last_status, pc>>
    /\ UNCHANGED <<store, model, messages, existing_record, user_content, payload, job,
                   trigger_calls, latest_response, words, events, response, server,
                   established>>

\* lines 137-138: the loop ran out
PollExhausted(p) ==
    /\ pc[p] = "poll"
    /\ attempts[p] \notin PollIterations
    /\ agent_response' = [agent_response EXCEPT ![p] = NoAnswer]
    /\ poll_log' = [poll_log EXCEPT ![p] = "Max polling attempts reached without success"]
    /\ pc' = [pc EXCEPT ![p] = "check_response"]
    /\ UNCHANGED <<store, model, messages, existing_record, user_content, payload, job,
                   trigger_calls, attempts, last_status, latest_response, words, events,
                   response, server, established>>

\* lines 262-265: 500 on a falsy agent_response, else the answer text.  What
\* poll_for_updates counted, printed and returned is gone once consumed.
CheckResponse(p) ==
    /\ pc[p] = "check_response"
    /\ IF AgentResponseOk(agent_response[p])
       THEN /\ latest_response' = [latest_response EXCEPT ![p] = AnswerOf(agent_response[p])]
            /\ pc' = [pc EXCEPT ![p] = "update"]
            /\ attempts' = [attempts EXCEPT ![p] = 0]
            /\ poll_log' = [poll_log EXCEPT ![p] = NONE]
            /\ agent_response' = [agent_response EXCEPT ![p] = NoAnswer]
            /\ last_status' = [last_status EXCEPT ![p] = NoStatus]
            /\ UNCHANGED <<model, messages, existing_record, user_content, payload, job,
                           trigger_calls, words, events, response>>
       ELSE ReturnError(p, JsonError(500, "Failed to get agent response after polling"))
    /\ UNCHANGED <<store, server, established>>

\* a final write that stores whatever id the trigger returned, the sentinel too
StoreAfterAnswerAlways(s, j) ==
    IF j.present /\ "conversation_id" \in j.keys
    THEN UpdateConversationId(s, j.conversation_id)
    ELSE s

\* the final write with its test inverted
StoreAfterAnswerInverted(s, j) ==
    IF j.present /\ "conversation_id" \in j.keys /\ j.conversation_id = SENTINEL
    THEN UpdateConversationId(s, j.conversation_id)
    ELSE s

\* lines 268-279: store the conversation id the trigger returned
StoreAfterAnswer(s, j) ==
    IF j.present /\ "conversation_id" \in j.keys /\ j.conversation_id # SENTINEL
    THEN UpdateConversationId(s, j.conversation_id)
    ELSE s

UpdateConversation(p) ==
    /\ pc[p] = "update"
    /\ store' = StoreAfterAnswer(store, job[p])
    /\ pc' = [pc EXCEPT ![p] = "respond"]
    /\ UNCHANGED <<model, messages, existing_record, user_content, payload, job,
                   trigger_calls, attempts, poll_log, agent_response, last_status,
                   latest_response, words, events, response, server, established>>

\* line 297 and line 282: the event-stream response is returned, the handler's
\* locals are gone but for latest_response, which the generator holds and splits
Respond(p) ==
    /\ pc[p] = "respond"
    /\ response' = [response EXCEPT ![p] = EventStream]
    /\ words' = [words EXCEPT ![p] = Split(latest_response[p])]
    /\ pc' = [pc EXCEPT ![p] = "generate"]
    /\ established' = IF job[p].conversation_id # SENTINEL
                      THEN job[p].conversation_id ELSE established
    /\ model' = [model EXCEPT ![p] = NONE]
    /\ user_content' = [user_content EXCEPT ![p] = NONE]
    /\ job' = [job EXCEPT ![p] = NoJob]
    /\ UNCHANGED <<store, messages, existing_record, payload,
                   trigger_calls, attempts, poll_log, agent_response, last_status,
                   latest_response, events, server>>

\* lines 283-294: one event per word
GenerateWord(p) ==
    /\ pc[p] = "generate"
    /\ Len(events[p]) < Len(words[p])
    /\ events' = [events EXCEPT ![p] = Append(@, DeltaEvent(words[p][Len(@) + 1]))]
    /\ UNCHANGED <<store, pc, model, messages, existing_record, user_content, payload,
                   job, trigger_calls, attempts, poll_log, agent_response, last_status,
                   latest_response, words, response, server, established>>

\* line 295: the end-of-stream event
GenerateDone(p) ==
    /\ pc[p] = "generate"
    /\ Len(events[p]) = Len(words[p])
    /\ events' = [events EXCEPT ![p] = Append(@, DoneEvent)]
    /\ pc' = [pc EXCEPT ![p] = "done"]
    /\ UNCHANGED <<store, model, messages, existing_record, user_content, payload,
                   job, trigger_calls, attempts, poll_log, agent_response, last_status,
                   latest_response, words, response, server, established>>

\* --------------------------------------- /manage-vapi-server-messages
\* lines 189-194: a server message arrives
ReceiveServerMessage(msg) ==
    /\ server_msg = NoServerMessage
    /\ server_msg' = msg
    /\ UNCHANGED <<store, locals, server_reply, deleted, established>>

\* lines 195-206: the reply, and delete_all_records() on a call-ended message
HandleServerMessage ==
    /\ server_msg # NoServerMessage
    /\ IF server_msg.type = "assistant-request"
       THEN /\ server_reply' = "assistant-config"
            /\ deleted' = 0
            /\ UNCHANGED <<store, established>>
       ELSE IF server_msg.type = "status-update" /\ server_msg.status = "ended"
       THEN /\ store' = DeleteAllRecords(store)
            /\ deleted' = Len(store)
            /\ server_reply' = "Call ended. All records deleted."
            /\ established' = NONE
       ELSE /\ server_reply' = "request processed successfully"
            /\ deleted' = 0
            /\ UNCHANGED <<store, established>>
    /\ server_msg' = NoServerMessage
    /\ UNCHANGED locals

\* ------------------------------------------------------ specifications
\* One request at a time: the worker handles each chat request and each
\* server message to completion before the next begins.
Worker == 1

Next ==
    \/ \E m \in Agents, msgs \in MessageLists(MaxMsgs) :
            server_msg = NoServerMessage /\ ReceiveChat(Worker, m, msgs) /\ UNCHANGED observed
    \/ StoreSelect(Worker) /\ UNCHANGED observed
    \/ StoreWrite(Worker) /\ UNCHANGED observed
    \/ Validate(Worker) /\ UNCHANGED observed
    \/ \E outcome \in TriggerOutcomes : TriggerAgent(Worker, outcome) /\ UNCHANGED observed
    \/ CheckJob(Worker) /\ UNCHANGED observed
    \/ \E outcome \in PollOutcomes(HandlerStatuses) : PollStep(Worker, outcome)
            /\ UNCHANGED observed
    \/ PollExhausted(Worker) /\ UNCHANGED observed
    \/ CheckResponse(Worker) /\ UNCHANGED observed
    \/ UpdateConversation(Worker) /\ UNCHANGED observed
    \/ Respond(Worker) /\ UNCHANGED observed
    \/ GenerateWord(Worker) /\ UNCHANGED observed
    \/ GenerateDone(Worker) /\ UNCHANGED observed
    \/ \E msg \in ServerMessages : Idle(Worker) /\ ReceiveServerMessage(msg)
            /\ UNCHANGED observed
    \/ HandleServerMessage /\ UNCHANGED observed

Spec == Init /\ [][Next]_vars

\* Overlapping requests: Flask serves each request on a thread of its own, so
\* the steps of the handlers and of the server messages interleave freely.
\* poll_for_updates reads and writes nothing the other handlers see, so a whole
\* call of it is one step here: the upstream answers "not yet" to the first
\* k status requests and `last` to every later one.
Sleeping == [kind |-> "ok", status |-> Status("pending", <<>>)]

\* the answer to the status request of iteration n
OutcomeAt(n, k, last) == IF n < k THEN Sleeping ELSE last

\* the loop returns from its first iteration that does not sleep, and falls
\* through to lines 137-138 when every iteration sleeps
PollLoop(k, last) ==
    LET returning == {n \in PollIterations : PollIteration(OutcomeAt(n, k, last)).step = "return"}
    IN  IF returning = {}
        THEN [value |-> NoAnswer, log |-> "Max polling attempts reached without success",
              status |-> NoStatus]
        ELSE LET first == CHOOSE n \in returning : \A m \in returning : n <= m
                 it == PollIteration(OutcomeAt(first, k, last))
             IN  [value |-> it.value, log |-> it.log, status |-> OutcomeAt(first, k, last).status]

\* poll_for_updates (lines 105-138), from its first request to its return
PollForUpdates(p, k, last) ==
    /\ pc[p] = "poll"
    /\ LET r == PollLoop(k, last)
       IN  /\ agent_response' = [agent_response EXCEPT ![p] = r.value]
           /\ poll_log' = [poll_log EXCEPT ![p] = r.log]
           /\ last_status' = [last_status EXCEPT ![p] = r.status]
    /\ pc' = [pc EXCEPT ![p] = "check_response"]
    /\ UNCHANGED <<store, model, messages, existing_record, user_content, payload, job,
                   trigger_calls, attempts, latest_response, words, events, response,
                   server, established>>

\* the inputs of the overlapping handlers: one agent, a request with a user
\* message, a trigger that fails or names a job, a poll that fails, answers
\* or never answers, and the call-ended message
ConcAgents == {"agent-42"}

ConcMessageLists == {<<Message("user", "Hello there")>>}

ConcTriggerOutcomes ==
    {o \in TriggerOutcomes :
        \/ o.kind = "transport"
        \/ o.kind = "ok" /\ o.body.studio_id = "s1" /\ o.body.job_id = "j1"
                         /\ o.body.conversation_id \in {"conv-9", "conv-10"}}

ConcPollOutcomes ==
    {[kind |-> "transport", status |-> NoStatus], Sleeping,
     [kind |-> "ok", status |-> Status("complete",
          <<Update("chain-success", Payload({"answer"}, <<"a">>))>>)]}

ConcDelays == {0, MAX_POLL_ATTEMPTS}

ConcServerMessages == {ServerMessage("status-update", "ended")}

NextConc ==
    \/ \E p \in Procs, m \in ConcAgents, msgs \in ConcMessageLists : ReceiveChat(p, m, msgs)
            /\ UNCHANGED observed
    \/ \E p \in Procs : StoreSelect(p) /\ UNCHANGED observed
    \/ \E p \in Procs : StoreWrite(p) /\ UNCHANGED observed
    \/ \E p \in Procs : Validate(p) /\ UNCHANGED observed
    \/ \E p \in Procs, outcome \in ConcTriggerOutcomes : TriggerAgent(p, outcome)
            /\ UNCHANGED observed
    \/ \E p \in Procs : CheckJob(p) /\ UNCHANGED observed
    \/ \E p \in Procs, k \in ConcDelays, last \in ConcPollOutcomes : PollForUpdates(p, k, last)
            /\ UNCHANGED observed
    \/ \E p \in Procs : CheckResponse(p) /\ UNCHANGED observed
    \/ \E p \in Procs : UpdateConversation(p) /\ UNCHANGED observed
    \/ \E p \in Procs : Respond(p) /\ UNCHANGED observed
    \/ \E p \in Procs : GenerateWord(p) /\ UNCHANGED observed
    \/ \E p \in Procs : GenerateDone(p) /\ UNCHANGED observed
    \/ \E msg \in ConcServerMessages : ReceiveServerMessage(msg) /\ UNCHANGED observed
    \/ HandleServerMessage /\ UNCHANGED observed

SpecConc == Init /\ [][NextConc]_vars

\* The poller alone: a handler that has just triggered job (s1, j1) polls it,
\* the upstream answering with any outcome and any status.
ValidJob == [present |-> TRUE, keys |-> {"conversation_id", "job_info"},
             conversation_id |-> "conv-9", studio_id |-> "s1", job_id |-> "j1"]

InitPoll ==
    /\ store = <<Row("agent-42", SENTINEL)>>
    /\ pc = [p \in Procs |-> IF p = Worker THEN "poll" ELSE "idle"]
    /\ model = [p \in Procs |-> IF p = Worker THEN "agent-42" ELSE NONE]
    /\ messages = [p \in Procs |-> <<>>]
    /\ existing_record = [p \in Procs |-> NoRow]
    /\ user_content = [p \in Procs |-> IF p = Worker THEN "Hello there" ELSE NONE]
    /\ payload = [p \in Procs |-> NoPayload]
    /\ job = [p \in Procs |-> IF p = Worker THEN ValidJob ELSE NoJob]
    /\ trigger_calls = [p \in Procs |-> IF p = Worker THEN 1 ELSE 0]
    /\ attempts = [p \in Procs |-> 0]
    /\ poll_log = [p \in Procs |-> NONE]
    /\ agent_response = [p \in Procs |-> NoAnswer]
    /\ last_status = [p \in Procs |-> NoStatus]
    /\ latest_response = [p \in Procs |-> <<>>]
    /\ words = [p \in Procs |-> <<>>]
    /\ events = [p \in Procs |-> <<>>]
    /\ response = [p \in Procs |-> NoResponse]
    /\ InitServer
    /\ established = NONE
    /\ InitObserved

NextPoll ==
    \/ \E outcome \in PollOutcomes(Statuses) : PollStep(Worker, outcome) /\ UNCHANGED observed
    \/ PollExhausted(Worker) /\ UNCHANGED observed

SpecPoll == InitPoll /\ [][NextPoll]_vars

\* The streamer alone: a handler that has stored the conversation id is about
\* to answer with the stream of any answer text of at most MaxLen characters.
InitStream ==
    /\ store = <<Row("agent-42", "conv-9")>>
    /\ pc = [p \in Procs |-> IF p = Worker THEN "respond" ELSE "idle"]
    /\ model = [p \in Procs |-> IF p = Worker THEN "agent-42" ELSE NONE]
    /\ messages = [p \in Procs |-> <<>>]
    /\ existing_record = [p \in Procs |-> NoRow]
    /\ user_content = [p \in Procs |-> IF p = Worker THEN "Hello there" ELSE NONE]
    /\ payload = [p \in Procs |-> NoPayload]
    /\ job = [p \in Procs |-> IF p = Worker THEN ValidJob ELSE NoJob]
    /\ trigger_calls = [p \in Procs |-> IF p = Worker THEN 1 ELSE 0]
    /\ attempts = [p \in Procs |-> 0]
    /\ poll_log = [p \in Procs |-> NONE]
    /\ agent_response = [p \in Procs |-> NoAnswer]
    /\ last_status = [p \in Procs |-> NoStatus]
    /\ latest_response \in {[p \in Procs |-> IF p = Worker THEN t ELSE <<>>] :
                                t \in TextsUpTo(MaxLen)}
    /\ words = [p \in Procs |-> <<>>]
    /\ events = [p \in Procs |-> <<>>]
    /\ response = [p \in Procs |-> NoResponse]
    /\ InitServer
    /\ established = NONE
    /\ InitObserved

NextStream ==
    \/ Respond(Worker) /\ UNCHANGED observed
    \/ GenerateWord(Worker) /\ UNCHANGED observed
    \/ GenerateDone(Worker) /\ UNCHANGED observed

SpecStream == InitStream /\ [][NextStream]_vars

\* One call: the worker handles one chat request at a time, polling one status
\* request per step, while the server messages of the call arrive and are
\* handled at any moment of it.  Every upstream call returns and a request
\* being handled is never left waiting: the handler's next step is taken.
HandlerStep(p) ==
    \/ StoreSelect(p)
    \/ StoreWrite(p)
    \/ Validate(p)
    \/ \E outcome \in TriggerOutcomes : TriggerAgent(p, outcome)
    \/ CheckJob(p)
    \/ \E outcome \in PollOutcomes(HandlerStatuses) : PollStep(p, outcome)
    \/ PollExhausted(p)
    \/ CheckResponse(p)
    \/ UpdateConversation(p)
    \/ Respond(p)
    \/ GenerateWord(p)
    \/ GenerateDone(p)

NextCall ==
    \/ \E m \in Agents, msgs \in MessageLists(MaxMsgs) : ReceiveChat(Worker, m, msgs)
            /\ UNCHANGED observed
    \/ StoreSelect(Worker) /\ UNCHANGED observed
    \/ StoreWrite(Worker) /\ UNCHANGED observed
    \/ Validate(Worker) /\ UNCHANGED observed
    \/ \E outcome \in TriggerOutcomes : TriggerAgent(Worker, outcome) /\ UNCHANGED observed
    \/ CheckJob(Worker) /\ UNCHANGED observed
    \/ \E outcome \in PollOutcomes(HandlerStatuses) : PollStep(Worker, outcome)
            /\ UNCHANGED observed
    \/ PollExhausted(Worker) /\ UNCHANGED observed
    \/ CheckResponse(Worker) /\ UNCHANGED observed
    \/ UpdateConversation(Worker) /\ UNCHANGED observed
    \/ Respond(Worker) /\ UNCHANGED observed
    \/ GenerateWord(Worker) /\ UNCHANGED observed
    \/ GenerateDone(Worker) /\ UNCHANGED observed
    \/ \E msg \in ConcServerMessages : ReceiveServerMessage(msg) /\ UNCHANGED observed
    \/ HandleServerMessage /\ UNCHANGED observed

SpecCall ==
    /\ Init
    /\ [][NextCall]_vars
    /\ WF_vars(HandlerStep(Worker) /\ UNCHANGED observed)
    /\ WF_vars(HandleServerMessage /\ UNCHANGED observed)

\* The poller observed: a handler that has just triggered job (s1, j1) polls
\* it and finishes the request, polled recording the outcome of each status
\* request, over every status of at most MaxObserved updates.
ObservedStatuses == {Status(t, us) : t \in StatusTypes, us \in UpdateLists(MaxObserved)}

ObservePoll(p, outcome) ==
    /\ polled' = [polled EXCEPT ![p] = outcome]
    /\ UNCHANGED <<last_turn, stale>>

NextPolled ==
    \/ \E outcome \in PollOutcomes(ObservedStatuses) :
            PollStep(Worker, outcome) /\ ObservePoll(Worker, outcome)
    \/ PollExhausted(Worker) /\ UNCHANGED observed
    \/ CheckResponse(Worker) /\ UNCHANGED observed
    \/ UpdateConversation(Worker) /\ UNCHANGED observed
    \/ Respond(Worker) /\ UNCHANGED observed
    \/ GenerateWord(Worker) /\ UNCHANGED observed
    \/ GenerateDone(Worker) /\ UNCHANGED observed

SpecPolled == InitPoll /\ [][NextPolled]_vars

\* Chat turns observed: requests handled one at a time as in Spec, each call of
\* poll_for_updates one step, and last_turn recording every turn that completes
\* until another request fails or a call-ended message is handled.
ObserveTurn(p) ==
    /\ last_turn' =
           IF pc[p] = "respond" /\ pc'[p] = "generate"
           THEN Turn(model[p], job[p].conversation_id, FetchOne(store))
           ELSE IF pc[p] \notin {"idle", "generate", "done"} /\ pc'[p] = "done"
           THEN NoTurn
           ELSE last_turn
    /\ UNCHANGED <<polled, stale>>

ObserveCallEnded ==
    /\ last_turn' = IF server_msg = ServerMessage("status-update", "ended")
                    THEN NoTurn ELSE last_turn
    /\ UNCHANGED <<polled, stale>>

NextTurns ==
    \/ \E m \in Agents, msgs \in MessageLists(MaxMsgs) :
            server_msg = NoServerMessage /\ ReceiveChat(Worker, m, msgs) /\ ObserveTurn(Worker)
    \/ StoreSelect(Worker) /\ ObserveTurn(Worker)
    \/ StoreWrite(Worker) /\ ObserveTurn(Worker)
    \/ Validate(Worker) /\ ObserveTurn(Worker)
    \/ \E outcome \in TriggerOutcomes : TriggerAgent(Worker, outcome) /\ ObserveTurn(Worker)
    \/ CheckJob(Worker) /\ ObserveTurn(Worker)
    \/ \E k \in ConcDelays, last \in PollOutcomes(HandlerStatuses) :
            PollForUpdates(Worker, k, last) /\ ObserveTurn(Worker)
    \/ CheckResponse(Worker) /\ ObserveTurn(Worker)
    \/ UpdateConversation(Worker) /\ ObserveTurn(Worker)
    \/ Respond(Worker) /\ ObserveTurn(Worker)
    \/ GenerateWord(Worker) /\ ObserveTurn(Worker)
    \/ GenerateDone(Worker) /\ ObserveTurn(Worker)
    \/ \E msg \in ServerMessages : Idle(Worker) /\ ReceiveServerMessage(msg)
            /\ UNCHANGED observed
    \/ HandleServerMessage /\ ObserveCallEnded

SpecTurns == Init /\ [][NextTurns]_vars

\* Overlapping requests observed: the handlers and inputs of SpecConc, stale
\* recording the requests that read the table (line 220) before a call-ended
\* message was handled and had not given their response by then.
ReadStates == {"store_write", "validate", "trigger", "check_job", "poll",
               "check_response", "update"}

HasRead(p) == pc[p] \in ReadStates

ObserveStep(p) ==
    /\ stale' = [stale EXCEPT ![p] = stale[p] /\ pc'[p] \in ReadStates]
    /\ UNCHANGED <<last_turn, polled>>

ObserveRequest(p) ==
    /\ stale' = [stale EXCEPT ![p] = FALSE]
    /\ UNCHANGED <<last_turn, polled>>

ObserveClear ==
    /\ stale' = IF server_msg = ServerMessage("status-update", "ended")
                THEN [p \in Procs |-> stale[p] \/ HasRead(p)]
                ELSE stale
    /\ UNCHANGED <<last_turn, polled>>

\* a trigger that fails or names a job of conversation conv-10
StaleTriggerOutcomes ==
    {o \in ConcTriggerOutcomes : o.kind = "ok" => o.body.conversation_id = "conv-10"}

NextStale ==
    \/ \E p \in Procs, m \in ConcAgents, msgs \in ConcMessageLists : ReceiveChat(p, m, msgs)
            /\ ObserveRequest(p)
    \/ \E p \in Procs : StoreSelect(p) /\ ObserveStep(p)
    \/ \E p \in Procs : StoreWrite(p) /\ ObserveStep(p)
    \/ \E p \in Procs : Validate(p) /\ ObserveStep(p)
    \/ \E p \in Procs, outcome \in StaleTriggerOutcomes : TriggerAgent(p, outcome)
            /\ ObserveStep(p)
    \/ \E p \in Procs : CheckJob(p) /\ ObserveStep(p)
    \/ \E p \in Procs, k \in ConcDelays, last \in ConcPollOutcomes : PollForUpdates(p, k, last)
            /\ ObserveStep(p)
    \/ \E p \in Procs : CheckResponse(p) /\ ObserveStep(p)
    \/ \E p \in Procs : UpdateConversation(p) /\ ObserveStep(p)
    \/ \E p \in Procs : Respond(p) /\ ObserveStep(p)
    \/ \E p \in Procs : GenerateWord(p) /\ ObserveStep(p)
    \/ \E p \in Procs : GenerateDone(p) /\ ObserveStep(p)
    \/ \E msg \in ConcServerMessages : ReceiveServerMessage(msg) /\ UNCHANGED observed
    \/ HandleServerMessage /\ ObserveClear

SpecStale == Init /\ [][NextStale]_vars

\* ---------------------------------------------------------------- claims
StoredConversationId == FetchOne(store).relevance_conversation_id

\* C1: when a chat request has just sent its trigger payload, the payload has
\* no conversation_id if the stored record's conversation id is the sentinel
\* "1234", and otherwise carries conversation_id equal to the stored id.
C1_PayloadConversationId ==
    \A p \in Procs :
        pc[p] = "check_job" =>
            /\ store # <<>>
            /\ StoredConversationId = SENTINEL => "conversation_id" \notin payload[p].keys
            /\ StoredConversationId # SENTINEL =>
                   /\ "conversation_id" \in payload[p].keys
                   /\ payload[p].conversation_id = StoredConversationId

C1_Witness ==
    \E p \in Procs :
        /\ pc[p] = "check_job"
        /\ StoredConversationId = "conv-9"
        /\ payload[p].conversation_id = "conv-9"

\* C2: with requests handled one at a time, once a chat turn has completed
\* with a trigger response whose conversation id c is not the sentinel and no
\* call-ended message has been handled since, every record holds c from the
\* end of that turn up to the trigger of a later request, and the trigger
\* payload of that request carries conversation_id = c.
C2_Continuity ==
    \A p \in Procs :
        established # NONE =>
            /\ pc[p] \in {"generate", "done", "store_select", "store_write", "validate",
                          "trigger", "check_job"} =>
                   /\ store # <<>>
                   /\ \A i \in 1..Len(store) : store[i].relevance_conversation_id = established
            /\ pc[p] = "check_job" =>
                   /\ "conversation_id" \in payload[p].keys
                   /\ payload[p].conversation_id = established

C2_Witness ==
    \E p \in Procs :
        /\ pc[p] = "check_job"
        /\ established = "conv-9"
        /\ payload[p].conversation_id = "conv-9"
        /\ StoredConversationId = "conv-9"

\* C3: when the trigger call of a chat request returned a conversation id c
\* that is not the sentinel, every record holds c at the moment the request
\* finishes after polling, whatever the poll returned.
C3_StoredWhateverThePollOutcome ==
    [][\A p \in Procs :
          (/\ pc[p] \in {"check_response", "respond"}
           /\ pc'[p] \in {"done", "generate"}
           /\ job[p].conversation_id \notin {NONE, SENTINEL})
          => /\ store' # <<>>
             /\ \A i \in 1..Len(store') :
                    store'[i].relevance_conversation_id = job[p].conversation_id]_vars

\* C4: with requests handled one at a time, the conversation table never
\* holds more than one record.
C4_AtMostOneRecord == Len(store) <= 1

C4_Witness ==
    /\ pc[Worker] = "validate"
    /\ Len(store) = 1
    /\ store[1].relevance_conversation_id = "conv-9"
    /\ server_reply = "Call ended. All records deleted."

\* C5: poll_for_updates never makes more than MAX_POLL_ATTEMPTS status
\* requests; it reports exhaustion only after exactly MAX_POLL_ATTEMPTS of
\* them, with no answer; and while it polls no request has yielded an answer.
C5_ExhaustionAfterExactlyMax ==
    \A p \in Procs :
        /\ attempts[p] <= MAX_POLL_ATTEMPTS
        /\ poll_log[p] = "Max polling attempts reached without success" =>
               /\ attempts[p] = MAX_POLL_ATTEMPTS
               /\ ~agent_response[p].present
               /\ last_status[p] = NoStatus
        /\ pc[p] = "poll" => (~agent_response[p].present /\ last_status[p] = NoStatus)

C5_Witness ==
    \E p \in Procs :
        /\ pc[p] = "check_response"
        /\ poll_log[p] = "Max polling attempts reached without success"
        /\ attempts[p] = MAX_POLL_ATTEMPTS

\* C6: when poll_for_updates returns from a polled status, that status is
\* "complete" and the value returned is the output of its first chain-success
\* update in sequence order, whatever stands before or after it.
C6_FirstChainSuccess ==
    \A p \in Procs :
        (pc[p] = "check_response" /\ last_status[p] # NoStatus) =>
            LET us == last_status[p].updates
            IN  /\ last_status[p].type = "complete"
                /\ \E i \in 1..Len(us) :
                       /\ us[i].type = "chain-success"
                       /\ \A j \in 1..(i - 1) : us[j].type # "chain-success"
                       /\ agent_response[p] = us[i].output

C6_Witness ==
    \E p \in Procs :
        LET us == last_status[p].updates
        IN  /\ pc[p] = "check_response"
            /\ Len(us) = 3
            /\ us[1].type = "tool-run"
            /\ us[2].type = "chain-success"
            /\ us[3].type = "chain-success"
            /\ us[2].output # us[3].output
            /\ agent_response[p] = us[2].output

\* the whitespace-delimited tokens of a text, by position
WordStarts(s) == {i \in 1..Len(s) : s[i] \notin Whitespace /\ (i = 1 \/ s[i - 1] \in Whitespace)}

WordCount(s) == Cardinality(WordStarts(s))

WordEnd(s, i) ==
    CHOOSE e \in i..Len(s) :
        /\ \A j \in i..e : s[j] \notin Whitespace
        /\ e = Len(s) \/ s[e + 1] \in Whitespace

Token(s, k) ==
    LET i == CHOOSE x \in WordStarts(s) : Cardinality({y \in WordStarts(s) : y < x}) = k - 1
    IN  SubSeq(s, i, WordEnd(s, i))

\* C7: a finished stream holds wordCount(answer) + 1 events: for each token of
\* the answer, in order, one event whose content is the token followed by one
\* space, and then the "[DONE]" event.
C7_StreamEvents ==
    \A p \in Procs :
        (pc[p] = "done" /\ response[p] = EventStream) =>
            LET s == latest_response[p]
                n == WordCount(s)
            IN  /\ Len(events[p]) = n + 1
                /\ events[p][n + 1] = DoneEvent
                /\ \A k \in 1..n :
                       events[p][k] = [data |-> "delta", content |-> Token(s, k) \o <<" ">>,
                                       role |-> "assistant"]

C7_Witness ==
    \E p \in Procs :
        /\ pc[p] = "done"
        /\ latest_response[p] = <<"a", " ", "\n", "b">>
        /\ Len(events[p]) = 3
        /\ events[p][2].content = <<"b", " ">>

HasUserEntry(msgs) == \E i \in 1..Len(msgs) : msgs[i].role = "user"

\* C8: a chat request whose messages hold no entry of role "user" leaves the
\* validation step with HTTP 400, having made no trigger call and no poll call.
C8_NoUserMessage ==
    [][\A p \in Procs :
          (pc[p] = "validate" /\ pc'[p] # "validate" /\ ~HasUserEntry(messages[p]))
          => /\ pc'[p] = "done"
             /\ response'[p] = JsonError(400, "No user message found")
             /\ trigger_calls'[p] = 0
             /\ attempts'[p] = 0
             /\ payload'[p] = NoPayload]_vars

C8_Witness ==
    \E p \in Procs :
        /\ pc[p] = "done"
        /\ messages[p] = <<Message("assistant", "Hello there")>>
        /\ response[p].status = 400
        /\ trigger_calls[p] = 0

\* C9: handling a status-update message of status "ended" leaves the
\* conversation table empty, whatever it held.
C9_CallEndedClears ==
    [][(server_msg = ServerMessage("status-update", "ended") /\ server_msg' = NoServerMessage)
          => store' = <<>>]_vars

C9_Witness ==
    /\ server_reply = "Call ended. All records deleted."
    /\ deleted >= 2
    /\ store = <<>>

JobBad(j) ==
    \/ ~j.present
    \/ "conversation_id" \notin j.keys
    \/ "job_info" \notin j.keys
    \/ j.studio_id \in {NONE, ""}
    \/ j.job_id \in {NONE, ""}

\* C10: no chat request makes more than one trigger call, and a request whose
\* trigger call failed or returned a job without conversation_id, job_info or
\* a non-empty studio_id and job_id ends with an HTTP 500 JSON error after
\* that one call and without any status request.
C10_TriggerFailure ==
    /\ [](\A p \in Procs : trigger_calls[p] <= 1)
    /\ [][\A p \in Procs :
             (pc[p] = "check_job" /\ pc'[p] # "check_job" /\ JobBad(job[p]))
             => /\ pc'[p] = "done"
                /\ response'[p].status = 500
                /\ response'[p].content_type = "application/json"
                /\ trigger_calls'[p] = 1
                /\ attempts'[p] = 0]_vars

C10_Witness ==
    \E p \in Procs :
        /\ pc[p] = "done"
        /\ response[p] = JsonError(500, "Missing studio_id or job_id in response")
        /\ trigger_calls[p] = 1
        /\ attempts[p] = 0

\* C11: when a chat turn completes with the same model and the same returned
\* conversation id as the chat turn handled just before it, the conversation
\* record it leaves is the record the first of the two turns left.
C11_UpsertIdempotent ==
    \A p \in Procs :
        (/\ pc[p] = "respond"
         /\ last_turn # NoTurn
         /\ last_turn.model = model[p]
         /\ last_turn.conversation_id = job[p].conversation_id)
        => FetchOne(store) = last_turn.record

\* C12: when a record exists, the store step of a chat request with model m
\* leaves every record with agent id m and with the conversation id it had,
\* whether that id is the sentinel or not, and adds no record.
C12_StoreStepSetsAgent ==
    [][\A p \in Procs :
          (pc[p] = "store_write" /\ pc'[p] = "validate" /\ existing_record[p] # NoRow)
          => /\ Len(store') = Len(store)
             /\ \A i \in 1..Len(store) :
                    /\ store'[i].relevance_agent_id = model[p]
                    /\ store'[i].relevance_conversation_id =
                           store[i].relevance_conversation_id]_vars

NotYet(status) ==
    \/ status.type # "complete"
    \/ \A i \in 1..Len(status.updates) : status.updates[i].type # "chain-success"

\* C13: while attempts remain, the next step of a polling handler is a status
\* request that consumes exactly one attempt; and a status request answered
\* with a status that is not "complete", or that is "complete" without a
\* chain-success update, leaves the handler polling, with nothing returned.
C13_NotYetKeepsPolling ==
    [][\A p \in Procs :
          /\ (/\ pc[p] = "poll"
              /\ attempts[p] < MAX_POLL_ATTEMPTS
              /\ <<pc'[p], attempts'[p]>> # <<pc[p], attempts[p]>>)
             => (attempts'[p] = attempts[p] + 1 /\ polled'[p] # NoOutcome)
          /\ (/\ pc[p] = "poll"
              /\ attempts'[p] # attempts[p]
              /\ polled'[p].kind = "ok"
              /\ NotYet(polled'[p].status))
             => /\ pc'[p] = "poll"
                /\ attempts'[p] = attempts[p] + 1
                /\ ~agent_response'[p].present
                /\ poll_log'[p] = NONE]_vars

C13_Witness ==
    \E p \in Procs :
        /\ pc[p] = "poll"
        /\ attempts[p] = 2
        /\ polled[p] = [kind |-> "ok",
                        status |-> Status("complete", <<Update("tool-run", EmptyPayload)>>)]

Failed(outcome) == outcome.kind \in {"transport", "http-error", "malformed-json"}

\* C14: a status request that fails (transport, HTTP status or body) ends the
\* poll at once with nothing returned, whatever attempts remain; no status
\* request follows it, and the chat request then ends with an HTTP 500 JSON
\* error and no stream event.
C14_FailedRequestAborts ==
    [][\A p \in Procs :
          /\ (pc[p] = "poll" /\ attempts'[p] # attempts[p] /\ Failed(polled'[p]))
             => /\ pc'[p] = "check_response"
                /\ ~agent_response'[p].present
          /\ Failed(polled[p])
             => /\ polled'[p] = polled[p]
                /\ attempts'[p] <= attempts[p]
                /\ pc'[p] \in {"check_response", "done"}
                /\ pc'[p] = "done"
                   => /\ response'[p].status = 500
                      /\ response'[p].content_type = "application/json"
                      /\ events'[p] = <<>>]_vars

C14_Witness ==
    \E p \in Procs :
        /\ pc[p] = "done"
        /\ polled[p].kind = "transport"
        /\ response[p] = JsonError(500, "Failed to get agent response after polling")
        /\ events[p] = <<>>

IsJsonError(resp) == resp.content_type = "application/json" /\ resp.status \in {400, 500}

\* C15: every chat request being handled ends; it ends with the event-stream
\* response or with a JSON error response; the event-stream response is given
\* only after poll_for_updates returned an answer payload; and the request
\* makes at most one trigger call and at most MAX_POLL_ATTEMPTS status requests.
C15_Terminates ==
    /\ [](\A p \in Procs :
             /\ trigger_calls[p] <= 1
             /\ attempts[p] <= MAX_POLL_ATTEMPTS
             /\ pc[p] = "done" => (response[p] = EventStream \/ IsJsonError(response[p])))
    /\ [][\A p \in Procs :
             /\ (response'[p] = EventStream /\ response[p] # EventStream) => pc[p] = "respond"
             /\ (pc'[p] = "respond" /\ pc[p] # "respond") => pc[p] = "update"
             /\ (pc'[p] = "update" /\ pc[p] # "update")
                => (agent_response[p].present /\ agent_response[p].keys # {})]_vars
    /\ \A p \in Procs : (pc[p] \notin {"idle", "done"}) ~> (pc[p] = "done")

\* C16 as claimed: whatever the interleaving of the store accesses of
\* concurrent chat requests, the table holds at most one record.
C16_AtMostOneRecordInterleaved == \A i \in DOMAIN store : i = 1

\* the handlers whose SELECT found the table empty and whose INSERT is to come
AboutToInsert == {p \in Procs : pc[p] = "store_write" /\ existing_record[p] = NoRow}

\* C16 as amended: with concurrent chat requests the table can hold more than
\* one record, and never more than one for each handler running: the records
\* and the handlers about to insert one are never more than the handlers.
C16_AtMostOnePerHandler == Len(store) + Cardinality(AboutToInsert) <= NumProcs

C16_Witness ==
    /\ Len(store) = NumProcs
    /\ \A p \in Procs : pc[p] = "validate"

\* C17: no chat request ends in an exception that nothing catches: each ends
\* with the event-stream response or a JSON error response, also when a
\* call-ended message empties the table between the request's store step and
\* the trigger step's read, which always finds a conversation id.
C17_NoHandlerCrash ==
    \A p \in Procs :
        pc[p] = "done" =>
            /\ response[p].error # "UnboundLocalError"
            /\ response[p].content_type \in {"text/event-stream", "application/json"}

\* C18: a chat request that read the table before a call-ended message was
\* handled (so it began before the message's clear) changes nothing in the
\* table afterwards: it neither inserts a record nor writes an agent id or its
\* conversation id into the records created since the clear.
C18_NoWriteAfterClear ==
    [][\A p \in Procs : (stale[p] /\ pc'[p] # pc[p]) => store' = store]_vars

\* C19: a record's conversation id never goes from a value other than the
\* sentinel back to the sentinel; whenever it changes, its new value is not
\* the sentinel and is the id a trigger response returned to the handler
\* storing it; and a record goes away only with the whole table, emptied by a
\* call-ended message.
C19_NeverBackToSentinel ==
    [][\A i \in 1..Len(store) :
          IF Len(store') < i
          THEN /\ store' = <<>>
               /\ server_msg = ServerMessage("status-update", "ended")
          ELSE LET old == store[i].relevance_conversation_id
                   new == store'[i].relevance_conversation_id
               IN  /\ old # SENTINEL => new # SENTINEL
                   /\ new # old =>
                          /\ new # SENTINEL
                          /\ \E p \in Procs :
                                 /\ pc[p] = "update"
                                 /\ "conversation_id" \in job[p].keys
                                 /\ job[p].conversation_id = new]_vars

C19_Witness ==
    /\ pc[Worker] = "respond"
    /\ established = "conv-9"
    /\ StoredConversationId = "conv-10"

====
